---- MODULE Spec2Model ----
(***************************************************************************)
(* Model of the Cite-GPT session pipeline: AssistantController             *)
(* (controller.py) driving AudioCaptureService.record_snippet (audio.py),  *)
(* the transcription, intent and search clients, and the retry prompt.     *)
(*                                                                         *)
(* Two kinds of thread exist.  The foreground thread calls start(),        *)
(* stop() and set_retry_prompt_handler(); every start() that takes effect  *)
(* spawns one worker thread running _run_pipeline.  Listener callbacks are *)
(* invoked synchronously by the emitting thread; the model records each    *)
(* emission, each port call and each port return in `trace`.  The loop     *)
(* over the callbacks of a channel is modelled on its own (ListenerSpec);  *)
(* callbacks are taken to return.                                          *)
(*                                                                         *)
(* Text is a sequence of one-character strings.  Optional[str] is a        *)
(* sequence of length at most one: <<>> is None, <<t>> is the text t.      *)
(***************************************************************************)
EXTENDS Integers, Sequences, FiniteSets, TLC

(***************************************************************************)
(* Bounds of the model.                                                    *)
(***************************************************************************)
MaxRuns == 1          \* Spec: start() calls that take effect
MaxCalls == 2         \* Spec: start() and stop() calls in all, no-ops included
RestartRuns == 2      \* RestartSpec: start() calls that take effect
RestartCalls == 3     \* RestartSpec: start() and stop() calls in all
MaxDuration == 1      \* largest configured audio_default_duration (seconds)
MaxLen == 4           \* ExtractSpec: longest transcript (characters)
MaxListeners == 3     \* ListenerSpec: add_*_listener calls in all
MaxAttachments == 2   \* ResolveSpec: most child attachments of an item

Runs == 1..(IF RestartRuns > MaxRuns THEN RestartRuns ELSE MaxRuns)
Durations == (-1)..MaxDuration

(***************************************************************************)
(* Text helpers: str.strip, str.lower, `in`, str.index, slicing.           *)
(***************************************************************************)
None == <<>>
Some(t) == <<t>>
Truthy(opt) == opt # <<>> /\ opt[1] # <<>>

Whitespace == {" "}
Punctuation == {",", ".", ":"}

LowerChar(c) == IF c = "K" THEN "k" ELSE IF c = "W" THEN "w" ELSE IF c = "A" THEN "a" ELSE c

Lower(t) == [i \in 1..Len(t) |-> LowerChar(t[i])]

RECURSIVE LStrip(_, _)
LStrip(t, chars) ==
    IF t # <<>> /\ t[1] \in chars THEN LStrip(Tail(t), chars) ELSE t

RECURSIVE RStrip(_, _)
RStrip(t, chars) ==
    IF t # <<>> /\ t[Len(t)] \in chars THEN RStrip(SubSeq(t, 1, Len(t) - 1), chars) ELSE t

Strip(t, chars) == RStrip(LStrip(t, chars), chars)

OccursAt(kw, t, i) == i + Len(kw) - 1 <= Len(t) /\ SubSeq(t, i, i + Len(kw) - 1) = kw

Contains(kw, t) == \E i \in 1..(Len(t) + 1) : OccursAt(kw, t, i)

\* str.index: zero-based offset of the first occurrence
Index(kw, t) == (CHOOSE i \in 1..(Len(t) + 1) :
                    OccursAt(kw, t, i) /\ \A j \in 1..(i - 1) : ~OccursAt(kw, t, j)) - 1

SliceFrom(t, idx) == SubSeq(t, idx + 1, Len(t))

(***************************************************************************)
(* Settings and the values the ports can hand back.                        *)
(***************************************************************************)
activation_keywords == << <<"k", "w">>, <<"f">> >>

Transcripts == { <<" ">>, <<"K", "w", " ", "a", ",">> }

Intent(a, t, y, terms) == [author |-> a, title |-> t, year |-> y, search_terms |-> terms]

Intents == { Intent(Some(<<"z">>), None, None, <<"s">>),
             Intent(None, None, None, <<>>) }

ResultLists == { <<>>, <<"i2", "i1">> }

RetryChoices == {"retry", "expand", "cancel", "other"}

(***************************************************************************)
(* Pure helpers of the controller.                                         *)
(***************************************************************************)
\* has_structured_filters looking at the author alone
has_author_filter(intent) == Truthy(intent.author)

\* has_structured_filters testing the fields for None instead of for truth
has_some_filter_given(intent) ==
    intent.author # None \/ intent.title # None \/ intent.year # None

\* SearchIntent.has_structured_filters
has_structured_filters(intent) ==
    Truthy(intent.author) \/ Truthy(intent.title) \/ Truthy(intent.year)

\* ZoteroClient.search_by_fields, lines 52-53: the guard that raises ValueError
AllFiltersEmpty(author, title, year) == ~(Truthy(author) \/ Truthy(title) \/ Truthy(year))

\* sep.join(parts) for a list of texts; a text is a sequence of fragments, a
\* fragment being a literal of the source or one character of a value
RECURSIVE Join(_, _)
Join(sep, parts) ==
    IF parts = <<>> THEN <<>>
    ELSE IF Len(parts) = 1 THEN parts[1]
    ELSE parts[1] \o sep \o Join(sep, Tail(parts))

\* lines 206-216: the labels and the values of the fields that are truthy
SummaryLabels(intent) ==
    (IF Truthy(intent.author) THEN << <<"author">> >> ELSE <<>>)
    \o (IF Truthy(intent.title) THEN << <<"title">> >> ELSE <<>>)
    \o (IF Truthy(intent.year) THEN << <<"year">> >> ELSE <<>>)

SummaryValues(intent) ==
    (IF Truthy(intent.author) THEN <<intent.author[1]>> ELSE <<>>)
    \o (IF Truthy(intent.title) THEN <<intent.title[1]>> ELSE <<>>)
    \o (IF Truthy(intent.year) THEN <<intent.year[1]>> ELSE <<>>)

\* lines 218-223 joining the labels with " and " however many there are
FieldTextJoinedByAnd(labels) == Join(<<" and ">>, labels)

\* lines 218-223: field_text
FieldText(labels) ==
    IF Len(labels) = 1 THEN labels[1]
    ELSE IF Len(labels) = 2 THEN Join(<<" and ">>, labels)
    ELSE Join(<<", ">>, SubSeq(labels, 1, Len(labels) - 1))
         \o <<", and ">> \o labels[Len(labels)]

\* _summarize_intent, lines 205-226
_summarize_intent(intent) ==
    LET labels == SummaryLabels(intent)
        values == SummaryValues(intent)
    IN IF labels # <<>>
       THEN <<"Inputs for ">> \o FieldText(labels)
            \o <<" ", IF Len(labels) = 1 THEN "field" ELSE "fields", " detected: ">>
            \o Join(<<", ">>, values) \o <<".">>
       ELSE <<"Keyword search terms detected: ">> \o intent.search_terms

\* the for-loop of _extract_query over the configured keywords, in order
RECURSIVE ScanKeywords(_, _, _)
ScanKeywords(kws, stripped, lowered) ==
    IF kws = <<>> THEN stripped
    ELSE LET keyword == Head(kws) IN
         IF keyword # <<>> /\ Contains(keyword, lowered)
         THEN LET idx == Index(keyword, lowered) + Len(keyword)
                  remainder == Strip(Strip(SliceFrom(stripped, idx), Whitespace), Punctuation)
              IN IF remainder # <<>> THEN remainder ELSE stripped
         ELSE ScanKeywords(Tail(kws), stripped, lowered)

\* _extract_query slicing the lowered text instead of the stripped one
ExtractFromLowered(transcript) ==
    LET lowered == Lower(Strip(transcript, Whitespace)) IN
    IF lowered = <<>> THEN <<>>
    ELSE ScanKeywords(activation_keywords, lowered, lowered)

\* _extract_query without the strip of line 168
ExtractUntrimmed(transcript) == transcript

\* AssistantController._extract_query; <<>> stands for the None it returns
_extract_query(transcript) ==
    LET stripped == Strip(transcript, Whitespace) IN
    IF stripped = <<>> THEN <<>>
    ELSE ScanKeywords(activation_keywords, stripped, Lower(stripped))

(***************************************************************************)
(* State.                                                                  *)
(***************************************************************************)
VARIABLES
    listening,       \* AssistantController._listening
    stop_event,      \* identity of the Event object in _stop_event (0: the one of __init__)
    set_events,      \* the Event objects whose flag is set
    latest_results,  \* AssistantController._latest_results
    retry_prompt,    \* TRUE iff a retry-prompt handler is registered
    intent_parser,   \* TRUE iff an intent parser was passed to the constructor
    nworkers,        \* worker threads created so far; run r is the r-th of them
    files,           \* temporary clip files on disk, named by the run that made them
    fgpc,            \* position of the foreground thread
    w,               \* per run: position and locals of its worker thread
    trace,           \* per run: its deliveries, port calls and port returns, in order
    nStart,          \* start() calls made
    nStop,           \* stop() calls made
    listeners,       \* per channel: the callbacks registered on it, in order of registration
    emit,            \* the _push_* / _log call in progress or last made: channel, loop position
    invoked,         \* the callbacks that call has invoked, in order
    gui              \* AssistantGUI: the window, its event queue, and the hand-off of _prompt_retry

vars == <<listening, stop_event, set_events, latest_results, retry_prompt, intent_parser,
          nworkers, files, fgpc, w, trace, nStart, nStop, listeners, emit, invoked, gui>>

\* the five notification channels of the controller (lines 36-40)
Channels == {"status", "log", "transcript", "recording", "results"}

\* no _push_* call has been made yet; `n0` is the number of callbacks at the call's start
NoEmit == [ch |-> "", i |-> 0, n0 |-> 0, done |-> TRUE]

\* the callback lists and the delivery in progress
Subscribers == <<listeners, emit, invoked>>

\* the GUI with its window open, nothing scheduled, no dialog, no prompt in progress
NoGui == [window |-> TRUE, queued |-> FALSE, dialog |-> FALSE, result |-> "",
          holder |-> "", wait_event |-> FALSE]

\* one entry of the trace; unused fields keep their defaults
\*   ch    "status" | "log" | "transcript" | "recording" | "results" | "call" | "ret"
\*   run   the run the entry belongs to;  by  "fg" or "worker", the emitting thread
\*   b     the boolean of a status/recording event, the expand flag of a call
\*   s     the message of a log line, the operation of a call or return
\*   out   the outcome of a return; for a prompt call, whether a handler serves it
\*   text  transcript, query or search terms;  items  a result list
\*   args  <<author, title, year>> of a fielded search
Entry(ch, r, by, b, s, out, text, items, args) ==
    [ch |-> ch, run |-> r, by |-> by, b |-> b, s |-> s, out |-> out, text |-> text,
     items |-> items, args |-> args]

StatusEv(r, by, active) == Entry("status", r, by, active, "", "", <<>>, <<>>, <<>>)
LogEv(r, by, key) == Entry("log", r, by, FALSE, key, "", <<>>, <<>>, <<>>)
LogTextEv(r, by, key, text) == Entry("log", r, by, FALSE, key, "", text, <<>>, <<>>)
TranscriptEv(r, text) == Entry("transcript", r, "worker", FALSE, "", "", text, <<>>, <<>>)
RecordingEv(r, active) == Entry("recording", r, "worker", active, "", "", <<>>, <<>>, <<>>)
ResultsEv(r, by, items) == Entry("results", r, by, FALSE, "", "", <<>>, items, <<>>)
CallEv(r, op, b, out, text, args) == Entry("call", r, "worker", b, op, out, text, <<>>, args)
RetEv(r, op, out, text, items) == Entry("ret", r, "worker", FALSE, op, out, text, items, <<>>)

\* locals of a worker that is not in the step using them
NoIntent == <<>>
IdleLocals == [pc |-> "unborn", ev |-> 0, duration |-> 0, elapsed |-> 0, snippet |-> 0,
               query |-> <<>>, intent |-> NoIntent, expanded |-> FALSE]

Init ==
    /\ listening = FALSE
    /\ stop_event = 0
    /\ set_events = {}
    /\ latest_results = <<>>
    /\ retry_prompt = FALSE
    /\ intent_parser \in BOOLEAN
    /\ nworkers = 0
    /\ files = {}
    /\ fgpc = "idle"
    /\ w = [r \in Runs |-> IdleLocals]
    /\ trace = [r \in Runs |-> <<>>]
    /\ nStart = 0
    /\ nStop = 0
    /\ listeners = [ch \in Channels |-> <<>>]
    /\ emit = NoEmit
    /\ invoked = <<>>
    /\ gui = NoGui

(***************************************************************************)
(* Foreground thread: start(), stop(), set_retry_prompt_handler().         *)
(***************************************************************************)
\* the record of run r grows by `entries`
Emit(r, entries) == [trace EXCEPT ![r] = @ \o entries]

\* What the record keeps of the runs before the latest one: their status and
\* recording events.  (The record is an observer of the program, not part of it.)
Earlier(tr) == SelectSeq(tr, LAMBDA e : e.ch \in {"status", "recording"})

\* the early return of start(): the call goes on iff not already listening
StartProceeds == ~listening

\* start() with lines 65-66 and 67 exchanged: the Event is replaced before the guard
StartReplacingEventFirst(maxRuns, maxCalls) ==
    /\ fgpc = "idle"
    /\ nStart + nStop < maxCalls
    /\ nStart' = nStart + 1
    /\ UNCHANGED Subscribers
    /\ UNCHANGED gui
    /\ IF ~listening
       THEN /\ nworkers < maxRuns
            /\ LET r == nworkers + 1 IN
               /\ stop_event' = r
               /\ listening' = TRUE
               /\ trace' = [q \in Runs |-> IF q = r THEN <<StatusEv(r, "fg", TRUE)>>
                                            ELSE Earlier(trace[q])]
               /\ nworkers' = r
               /\ w' = [w EXCEPT ![r].pc = "begin"]
               /\ fgpc' = "start_tail"
            /\ UNCHANGED <<set_events, latest_results, retry_prompt, intent_parser, files, nStop>>
       ELSE /\ stop_event' = 0 - nStart - 1
            /\ UNCHANGED <<listening, set_events, latest_results, retry_prompt,
                           intent_parser, nworkers, files, fgpc, w, trace, nStop>>

\* start() without line 67: the run uses the Event of the run before it
StartKeepingEvent(maxRuns, maxCalls) ==
    /\ fgpc = "idle"
    /\ nStart + nStop < maxCalls
    /\ nStart' = nStart + 1
    /\ UNCHANGED Subscribers
    /\ UNCHANGED gui
    /\ IF StartProceeds
       THEN /\ nworkers < maxRuns
            /\ LET r == nworkers + 1 IN
               /\ listening' = TRUE
               /\ trace' = [q \in Runs |-> IF q = r THEN <<StatusEv(r, "fg", TRUE)>>
                                            ELSE Earlier(trace[q])]
               /\ nworkers' = r
               /\ w' = [w EXCEPT ![r].pc = "begin"]
               /\ fgpc' = "start_tail"
            /\ UNCHANGED <<stop_event, set_events, latest_results, retry_prompt,
                           intent_parser, files, nStop>>
       ELSE UNCHANGED <<listening, stop_event, set_events, latest_results, retry_prompt,
                        intent_parser, nworkers, files, fgpc, w, trace, nStop>>

\* start(), lines 64-71: guard, fresh Event, _listening, StatusChanged(true), worker thread
Start(maxRuns, maxCalls) ==
    /\ fgpc = "idle"
    /\ nStart + nStop < maxCalls
    /\ nStart' = nStart + 1
    /\ UNCHANGED Subscribers
    /\ UNCHANGED gui
    /\ IF StartProceeds
       THEN /\ nworkers < maxRuns
            /\ LET r == nworkers + 1 IN
               /\ stop_event' = r
               /\ listening' = TRUE
               /\ trace' = [q \in Runs |-> IF q = r THEN <<StatusEv(r, "fg", TRUE)>>
                                            ELSE Earlier(trace[q])]
               /\ nworkers' = r
               /\ w' = [w EXCEPT ![r].pc = "begin"]
               /\ fgpc' = "start_tail"
            /\ UNCHANGED <<set_events, latest_results, retry_prompt, intent_parser, files, nStop>>
       ELSE UNCHANGED <<listening, stop_event, set_events, latest_results, retry_prompt,
                        intent_parser, nworkers, files, fgpc, w, trace, nStop>>

\* start(), lines 72-76: the two log lines written after the worker was started,
\* then _push_results([])
StartTail ==
    /\ fgpc = "start_tail"
    /\ latest_results' = <<>>
    /\ trace' = Emit(nworkers, <<LogEv(nworkers, "fg", "Assistant activated"),
                                  LogEv(nworkers, "fg", "Zotero target"),
                                  ResultsEv(nworkers, "fg", <<>>)>>)
    /\ fgpc' = "idle"
    /\ UNCHANGED <<listening, stop_event, set_events, retry_prompt, intent_parser,
                   nworkers, files, w, nStart, nStop>>
    /\ UNCHANGED Subscribers
    /\ UNCHANGED gui

\* stop() without its early return
StopAlways == TRUE

\* the early return of stop(): the call goes on iff listening
StopProceeds == listening

\* stop(), lines 78-82
Stop(maxCalls) ==
    /\ fgpc = "idle"
    /\ nStart + nStop < maxCalls
    /\ nStop' = nStop + 1
    /\ IF StopProceeds
       THEN /\ set_events' = set_events \cup {stop_event}
            /\ trace' = Emit(nworkers, <<LogEv(nworkers, "fg", "Stopping current run...")>>)
       ELSE UNCHANGED <<set_events, trace>>
    /\ UNCHANGED <<listening, stop_event, latest_results, retry_prompt, intent_parser,
                   nworkers, files, fgpc, w, nStart>>
    /\ UNCHANGED Subscribers
    /\ UNCHANGED gui

\* set_retry_prompt_handler(), lines 61-62
SetRetryPromptHandler ==
    /\ fgpc = "idle"
    /\ nStart = 0
    /\ ~retry_prompt
    /\ retry_prompt' = TRUE
    /\ UNCHANGED <<listening, stop_event, set_events, latest_results, intent_parser,
                   nworkers, files, fgpc, w, trace, nStart, nStop>>
    /\ UNCHANGED Subscribers
    /\ UNCHANGED gui

(***************************************************************************)
(* Worker thread of run r: _run_pipeline.                                  *)
(***************************************************************************)
Frame == <<stop_event, retry_prompt, intent_parser, nworkers, fgpc, nStart, nStop,
           listeners, emit, invoked, gui>>

WLog(r, key) == LogEv(r, "worker", key)

\* leave the try block: only `snippet` is still needed, by the finally clause
ToFinally(loc) ==
    [loc EXCEPT !.pc = "finally", !.ev = 0, !.duration = 0, !.elapsed = 0,
                !.query = <<>>, !.intent = NoIntent, !.expanded = FALSE]

\* an exception that no handler of _run_pipeline catches and no finally clause follows
RaiseUncaught(r, entries, key) ==
    /\ trace' = Emit(r, entries)
    /\ w' = [w EXCEPT ![r].pc = "crashed"]

\* an exception that is logged where it occurs, the run going on to the transcription
RaiseAndGoOn(r, entries, key) ==
    /\ trace' = Emit(r, entries \o <<WLog(r, key),
                                     CallEv(r, "transcribe_file", FALSE, "", <<>>, <<>>)>>)
    /\ w' = [w EXCEPT ![r].pc = "transcribing"]

\* an exception reaches the handlers of _run_pipeline (lines 113-118), which log it
Raise(r, entries, key) ==
    /\ trace' = Emit(r, entries \o <<WLog(r, key)>>)
    /\ w' = [w EXCEPT ![r] = ToFinally(@)]

\* record_snippet, line 59: duration_seconds or self._default_duration, the
\* default being max(1, default_duration) of the same settings (main.py)
EffectiveDuration(d) == IF d # 0 THEN d ELSE 1

\* lines 96-99: RecordingChanged(true) and the "Recording audio snippet" log
WBegin(r) ==
    /\ w[r].pc = "begin"
    /\ trace' = Emit(r, <<RecordingEv(r, TRUE), WLog(r, "Recording audio snippet")>>)
    /\ w' = [w EXCEPT ![r].pc = "enter"]
    /\ UNCHANGED <<listening, set_events, latest_results, files>>
    /\ UNCHANGED Frame

\* lines 100-103 and record_snippet up to sd.rec (audio.py 59-74)
WEnter(r) ==
    /\ w[r].pc = "enter"
    /\ \E d \in Durations, device_ok \in BOOLEAN :
         LET duration == EffectiveDuration(d)
             call == CallEv(r, "record_snippet", FALSE, "", <<>>, <<>>)
         IN
         IF duration <= 0                                     \* ValueError
         THEN Raise(r, <<call, RetEv(r, "record_snippet", "invalid_duration", <<>>, <<>>)>>,
                    "Pipeline error")
         ELSE IF stop_event \in set_events                    \* RecordingCancelled
         THEN Raise(r, <<call, RetEv(r, "record_snippet", "cancelled", <<>>, <<>>)>>,
                    "Recording cancelled")
         ELSE IF ~device_ok                                   \* sd.rec failed
         THEN Raise(r, <<call, RetEv(r, "record_snippet", "device_error", <<>>, <<>>)>>,
                    "Pipeline error")
         ELSE /\ trace' = Emit(r, <<call>>)
              /\ w' = [w EXCEPT ![r].pc = "poll", ![r].ev = stop_event,
                                ![r].duration = duration, ![r].elapsed = 0]
    /\ UNCHANGED <<listening, set_events, latest_results, files>>
    /\ UNCHANGED Frame

\* one iteration of the polling loop of record_snippet (audio.py 77-85)
WPoll(r) ==
    /\ w[r].pc = "poll"
    /\ IF w[r].ev \in set_events
       THEN \E device_ok \in BOOLEAN :                       \* sd.stop(); sd.wait()
              IF device_ok
              THEN Raise(r, <<RetEv(r, "record_snippet", "cancelled", <<>>, <<>>)>>,
                         "Recording cancelled")
              ELSE Raise(r, <<RetEv(r, "record_snippet", "device_error", <<>>, <<>>)>>,
                         "Pipeline error")
       ELSE IF w[r].elapsed >= w[r].duration
       THEN /\ w' = [w EXCEPT ![r].pc = "write"]
            /\ UNCHANGED trace
       ELSE /\ w' = [w EXCEPT ![r].elapsed = @ + 1]
            /\ UNCHANGED trace
    /\ UNCHANGED <<listening, set_events, latest_results, files>>
    /\ UNCHANGED Frame

\* record_snippet after the loop (audio.py 86-101): sd.wait, the temporary file,
\* sf.write; then lines 104-108 of the controller up to the transcription call
WWrite(r) ==
    /\ w[r].pc = "write"
    /\ \E outcome \in {"ok", "device_error", "write_error"} :
         CASE outcome = "device_error" ->                    \* sd.wait failed: no file yet
                /\ Raise(r, <<RetEv(r, "record_snippet", "device_error", <<>>, <<>>)>>,
                         "Pipeline error")
                /\ UNCHANGED files
           [] outcome = "write_error" ->                     \* file made, sf.write failed
                /\ Raise(r, <<RetEv(r, "record_snippet", "write_error", <<>>, <<>>)>>,
                         "Pipeline error")
                /\ files' = files \cup {r}
           [] outcome = "ok" ->
                /\ files' = files \cup {r}
                /\ trace' = Emit(r, <<RetEv(r, "record_snippet", "ok", <<>>, <<>>),
                                       RecordingEv(r, FALSE),
                                       WLog(r, "Transcribing audio"),
                                       CallEv(r, "transcribe_file", FALSE, "", <<>>, <<>>)>>)
                /\ w' = [w EXCEPT ![r].pc = "transcribing", ![r].snippet = r,
                                  ![r].ev = 0, ![r].duration = 0, ![r].elapsed = 0]
    /\ UNCHANGED <<listening, set_events, latest_results>>
    /\ UNCHANGED Frame

\* _run_search up to the call of the Search Port (lines 235-247)
SearchCall(r, intent, fallback_query, expand) ==
    IF intent # NoIntent /\ has_structured_filters(intent[1]) /\ ~expand
    THEN <<WLog(r, "Running Zotero fielded search"),
           CallEv(r, "search_by_fields", FALSE, "", <<>>,
                  <<intent[1].author, intent[1].title, intent[1].year>>)>>
    ELSE LET terms == IF intent # NoIntent THEN intent[1].search_terms ELSE fallback_query
             search_terms == IF terms # <<>> THEN terms ELSE fallback_query
         IN <<LogTextEv(r, "worker",
                        IF expand THEN "Keyword search (expanded)" ELSE "Keyword search (direct)",
                        search_terms),
              CallEv(r, "search_items", expand, "", search_terms, <<>>)>>

\* line 108 returns or raises; lines 109-112 and _handle_transcript up to the
\* first port call (lines 132-148)
WTranscribed(r) ==
    /\ w[r].pc = "transcribing"
    /\ \/ Raise(r, <<RetEv(r, "transcribe_file", "error", <<>>, <<>>)>>, "Pipeline error")
       \/ \E transcript \in Transcripts :
            LET query == _extract_query(transcript)
                heard == <<RetEv(r, "transcribe_file", "ok", transcript, <<>>),
                           LogTextEv(r, "worker", "Raw audio transcription",
                                     IF Strip(transcript, Whitespace) # <<>>
                                     THEN Strip(transcript, Whitespace)
                                     ELSE <<"[", "e", "m", "p", "t", "y", "]">>),
                           TranscriptEv(r, transcript)>>
            IN IF query = <<>>
               THEN /\ trace' = Emit(r, heard \o <<WLog(r, "Nothing transcribed")>>)
                    /\ w' = [w EXCEPT ![r] = ToFinally(@)]
               ELSE IF intent_parser
               THEN /\ trace' = Emit(r, heard \o <<WLog(r, "Parsing input"),
                                                   CallEv(r, "parse", FALSE, "", query, <<>>)>>)
                    /\ w' = [w EXCEPT ![r].pc = "parsing", ![r].query = query]
               ELSE /\ trace' = Emit(r, heard \o <<WLog(r, "Searching Zotero...")>>
                                             \o SearchCall(r, NoIntent, query, FALSE))
                    /\ w' = [w EXCEPT ![r].pc = "searching", ![r].query = query]
    /\ UNCHANGED <<listening, set_events, latest_results, files>>
    /\ UNCHANGED Frame

\* WParsed without the try/except of lines 141-145
WParsedFatal(r) ==
    /\ w[r].pc = "parsing"
    /\ \/ \E intent \in Intents :
            /\ trace' = Emit(r, <<RetEv(r, "parse", "ok", <<>>, <<>>),
                                   LogTextEv(r, "worker", "Intent summary",
                                             _summarize_intent(intent)),
                                   WLog(r, "Searching Zotero...")>>
                                 \o SearchCall(r, <<intent>>, w[r].query, FALSE))
            /\ w' = [w EXCEPT ![r].pc = "searching", ![r].intent = <<intent>>]
       \/ Raise(r, <<RetEv(r, "parse", "error", <<>>, <<>>)>>, "Pipeline error")
    /\ UNCHANGED <<listening, set_events, latest_results, files>>
    /\ UNCHANGED Frame

\* line 142 returns or raises; lines 143-148 up to the call of the Search Port
WParsed(r) ==
    /\ w[r].pc = "parsing"
    /\ \/ \E intent \in Intents :
            /\ trace' = Emit(r, <<RetEv(r, "parse", "ok", <<>>, <<>>),
                                   LogTextEv(r, "worker", "Intent summary",
                                             _summarize_intent(intent)),
                                   WLog(r, "Searching Zotero...")>>
                                 \o SearchCall(r, <<intent>>, w[r].query, FALSE))
            /\ w' = [w EXCEPT ![r].pc = "searching", ![r].intent = <<intent>>]
       \/ /\ trace' = Emit(r, <<RetEv(r, "parse", "error", <<>>, <<>>),
                                 WLog(r, "Intent parsing failed"),
                                 WLog(r, "Searching Zotero...")>>
                               \o SearchCall(r, NoIntent, w[r].query, FALSE))
          /\ w' = [w EXCEPT ![r].pc = "searching", ![r].intent = NoIntent]
    /\ UNCHANGED <<listening, set_events, latest_results, files>>
    /\ UNCHANGED Frame

\* _prompt_retry answering "retry" whatever it is offered
DefaultAlwaysRetry(expand_allowed) == "retry"

\* _prompt_retry, line 202: the answer when no handler is registered
DefaultChoice(expand_allowed) == IF expand_allowed THEN "expand" ELSE "retry"

\* line 152 with expand_allowed=True
ExpandAlwaysAllowed(expanded) == TRUE

\* line 152: the flag handed to _prompt_retry
ExpandAllowed(expanded) == ~expanded

\* line 153 without "and not expanded"
TakesAnyExpand(choice, expanded) == choice = "expand"

\* line 153: the branch that searches again
TakesExpand(choice, expanded) == choice = "expand" /\ ~expanded

\* lines 153-162: what the loop does with the answer
AfterChoice(r, entries, choice) ==
    IF TakesExpand(choice, w[r].expanded)
    THEN /\ trace' = Emit(r, entries \o <<WLog(r, "Expanding search across all fields...")>>
                                  \o SearchCall(r, w[r].intent, w[r].query, TRUE))
         /\ w' = [w EXCEPT ![r].pc = "searching", ![r].expanded = TRUE]
    ELSE /\ trace' = Emit(r, entries \o <<WLog(r, IF choice = "retry"
                                                 THEN "User chose to record another clip"
                                                 ELSE "User cancelled the search")>>)
         /\ w' = [w EXCEPT ![r] = ToFinally(@)]

\* lines 164-165 emitting and storing the first match alone
PushFirstMatch(r, back, matches) ==
    /\ latest_results' = <<Head(matches)>>
    /\ trace' = Emit(r, back \o <<ResultsEv(r, "worker", <<Head(matches)>>),
                                  WLog(r, "item(s) found")>>)
    /\ w' = [w EXCEPT ![r] = ToFinally(@)]

\* lines 164-165: _push_results(matches) (lines 195-198), the log, and the return
PushMatches(r, back, matches) ==
    /\ latest_results' = matches
    /\ trace' = Emit(r, back \o <<ResultsEv(r, "worker", matches),
                                  WLog(r, "item(s) found")>>)
    /\ w' = [w EXCEPT ![r] = ToFinally(@)]

\* WSearched without the except clause of _run_search (lines 248-250)
WSearchedUncaught(r) ==
    /\ w[r].pc = "searching"
    /\ \E outcome \in {"ok", "error"}, found \in ResultLists :
         LET back == <<RetEv(r, "search", outcome, <<>>, found)>>
             allowed == ExpandAllowed(w[r].expanded)
         IN /\ outcome = "error" => found = <<>>
            /\ IF outcome = "error"
               THEN /\ Raise(r, back, "Pipeline error")
                    /\ UNCHANGED latest_results
               ELSE IF found # <<>>
               THEN PushMatches(r, back, found)
               ELSE /\ UNCHANGED latest_results
                    /\ IF retry_prompt
                       THEN /\ trace' = Emit(r, back \o <<WLog(r, "No Zotero items matched"),
                                   CallEv(r, "prompt", allowed, "handler", <<>>, <<>>)>>)
                            /\ w' = [w EXCEPT ![r].pc = "awaiting"]
                       ELSE AfterChoice(r,
                                back \o <<WLog(r, "No Zotero items matched"),
                                          CallEv(r, "prompt", allowed, "default", <<>>, <<>>),
                                          RetEv(r, "prompt", DefaultChoice(allowed), <<>>, <<>>)>>,
                                DefaultChoice(allowed))
    /\ UNCHANGED <<listening, set_events, files>>
    /\ UNCHANGED Frame

\* the Search Port returns or raises (lines 247-250); then lines 150-152 or 164-165
WSearched(r) ==
    /\ w[r].pc = "searching"
    /\ \E outcome \in {"ok", "error"}, found \in ResultLists :
         LET matches == IF outcome = "ok" THEN found ELSE <<>>
             back == IF outcome = "ok"
                     THEN <<RetEv(r, "search", "ok", <<>>, found)>>
                     ELSE <<RetEv(r, "search", "error", <<>>, <<>>),
                            WLog(r, "Zotero search failed")>>
             allowed == ExpandAllowed(w[r].expanded)
         IN /\ outcome = "error" => found = <<>>
            /\ IF matches # <<>>
               THEN PushMatches(r, back, matches)
               ELSE /\ UNCHANGED latest_results
                    /\ IF retry_prompt
                       THEN /\ trace' = Emit(r, back \o <<WLog(r, "No Zotero items matched"),
                                   CallEv(r, "prompt", allowed, "handler", <<>>, <<>>)>>)
                            /\ w' = [w EXCEPT ![r].pc = "awaiting"]
                       ELSE AfterChoice(r,
                                back \o <<WLog(r, "No Zotero items matched"),
                                          CallEv(r, "prompt", allowed, "default", <<>>, <<>>),
                                          RetEv(r, "prompt", DefaultChoice(allowed), <<>>, <<>>)>>,
                                DefaultChoice(allowed))
    /\ UNCHANGED <<listening, set_events, files>>
    /\ UNCHANGED Frame

\* the registered handler returns or raises (line 203); then lines 153-162
WPrompted(r) ==
    /\ w[r].pc = "awaiting"
    /\ \/ \E choice \in RetryChoices :
            AfterChoice(r, <<RetEv(r, "prompt", choice, <<>>, <<>>)>>, choice)
       \/ Raise(r, <<RetEv(r, "prompt", "error", <<>>, <<>>)>>, "Pipeline error")
    /\ UNCHANGED <<listening, set_events, latest_results, files>>
    /\ UNCHANGED Frame

\* the finally clause (lines 119-122) and _cleanup_after_run, lines 126-128;
\* unlink removes the clip unless it fails with the suppressed PermissionError
WFinally(r) ==
    /\ w[r].pc = "finally"
    /\ IF w[r].snippet # 0
       THEN \E unlinked \in BOOLEAN :
              files' = IF unlinked THEN files \ {w[r].snippet} ELSE files
       ELSE UNCHANGED files
    /\ trace' = Emit(r, <<RecordingEv(r, FALSE)>>)
    /\ set_events' = set_events \cup {stop_event}
    /\ listening' = FALSE
    /\ w' = [w EXCEPT ![r].pc = "cleanup_status", ![r].snippet = 0]
    /\ UNCHANGED latest_results
    /\ UNCHANGED Frame

\* _cleanup_after_run, line 129: StatusChanged(false)
WCleanupStatus(r) ==
    /\ w[r].pc = "cleanup_status"
    /\ trace' = Emit(r, <<StatusEv(r, "worker", FALSE)>>)
    /\ w' = [w EXCEPT ![r].pc = "cleanup_log"]
    /\ UNCHANGED <<listening, set_events, latest_results, files>>
    /\ UNCHANGED Frame

\* _cleanup_after_run, line 130: the "Assistant stopped" log; the thread ends
WCleanupLog(r) ==
    /\ w[r].pc = "cleanup_log"
    /\ trace' = Emit(r, <<WLog(r, "Assistant stopped")>>)
    /\ w' = [w EXCEPT ![r].pc = "done"]
    /\ UNCHANGED <<listening, set_events, latest_results, files>>
    /\ UNCHANGED Frame

Worker(r) ==
    \/ WBegin(r) \/ WEnter(r) \/ WPoll(r) \/ WWrite(r) \/ WTranscribed(r) \/ WParsed(r)
    \/ WSearched(r) \/ WPrompted(r) \/ WFinally(r) \/ WCleanupStatus(r) \/ WCleanupLog(r)

Foreground(maxRuns, maxCalls) ==
    Start(maxRuns, maxCalls) \/ StartTail \/ Stop(maxCalls) \/ SetRetryPromptHandler

NextWithin(maxRuns, maxCalls) == Foreground(maxRuns, maxCalls) \/ \E r \in Runs : Worker(r)

\* one session: a start() that takes effect and one more call
Next == NextWithin(MaxRuns, MaxCalls)

Spec == Init /\ [][Next]_vars

\* Each worker is a thread of its own and every call it waits on returns or raises
FairSpec == Spec /\ \A r \in Runs : WF_vars(Worker(r))

\* consecutive sessions
RestartNext == NextWithin(RestartRuns, RestartCalls)

RestartSpec == Init /\ [][RestartNext]_vars

(***************************************************************************)
(* Reading the record.                                                     *)
(***************************************************************************)
Idx(r) == 1..Len(trace[r])
At(r, i) == trace[r][i]

IsStatus(e, active) == e.ch = "status" /\ e.b = active
IsRecording(e, active) == e.ch = "recording" /\ e.b = active
IsLog(e, key) == e.ch = "log" /\ e.s = key
IsCall(e, op) == e.ch = "call" /\ e.s = op
IsRet(e, op) == e.ch = "ret" /\ e.s = op
IsSearchCall(e) == IsCall(e, "search_by_fields") \/ IsCall(e, "search_items")
IsWorkerResults(e) == e.ch = "results" /\ e.by = "worker"
IsStopLog(e) == IsLog(e, "Stopping current run...")

\* a step of the pipeline after capture: a port call, a prompt, a result emission
IsPipelineStep(e) ==
    \/ IsCall(e, "transcribe_file") \/ IsCall(e, "parse") \/ IsSearchCall(e)
    \/ IsCall(e, "prompt") \/ IsWorkerResults(e)

Count(r, P(_)) == Cardinality({i \in Idx(r) : P(At(r, i))})

\* the worker of run r has marked the pipeline idle (line 128) or has ended
BackToIdle(r) == w[r].pc \in {"cleanup_status", "cleanup_log", "done"}

\* the worker of run r has begun _run_pipeline and not finished it
InFlight(r) == w[r].pc \notin {"unborn", "begin", "done"}

(***************************************************************************)
(* C1.  After a run has terminated, the clip file the capture service made *)
(* for it is gone and, no later run having started, is_listening is false. *)
(* Stated as the claim has it; the code violates it.                       *)
(***************************************************************************)
C1_ClipDeletedAndIdleAfterRun ==
    \A r \in Runs :
        w[r].pc = "done" => /\ r \notin files
                            /\ (r = nworkers => ~listening)

(***************************************************************************)
(* C2.  A start() call made while is_listening is true changes nothing: no *)
(* worker thread, no event, no new cancellation flag, no result reset.     *)
(***************************************************************************)
C2_StartWhileActiveIsNoOp ==
    [][(nStart' = nStart + 1 /\ listening)
        => UNCHANGED <<listening, stop_event, set_events, latest_results, retry_prompt,
                       nworkers, files, fgpc, w, trace>>]_vars

\* a start() call has been made that began no run, and the pipeline is active
C2_Witness == nStart > nworkers /\ nworkers >= 1 /\ listening

(***************************************************************************)
(* C3.  No event of run N+1 is emitted before the terminal                 *)
(* StatusChanged(false) of run N.  Stated as the claim has it; the code    *)
(* violates it.                                                            *)
(***************************************************************************)
C3_NoEventBeforePreviousRunEnded ==
    \A r \in Runs :
        (r + 1 \in Runs /\ trace[r + 1] # <<>>)
            => \E i \in Idx(r) : IsStatus(At(r, i), FALSE)

(***************************************************************************)
(* C4.  At most one worker has begun _run_pipeline and not finished it.    *)
(* Stated as the claim has it; the code violates it.                       *)
(***************************************************************************)
C4_AtMostOneRunInFlight == Cardinality({r \in Runs : InFlight(r)}) <= 1

(***************************************************************************)
(* C5.  If stop() is called while the run is in capture (the capture       *)
(* itself not failing), the run attempts no transcription, parse, search   *)
(* or prompt and emits no results, and by the time the pipeline is idle    *)
(* again it has emitted RecordingChanged(false) and the "Recording         *)
(* cancelled" log.  Stated as the claim has it; the code violates it.      *)
(***************************************************************************)
CaptureFailed(r) ==
    \E i \in Idx(r) : /\ IsRet(At(r, i), "record_snippet")
                      /\ At(r, i).out \in {"invalid_duration", "device_error", "write_error"}

\* entry i of run r is the log of a stop() made before record_snippet had returned
StopDuringCapture(r, i) ==
    /\ IsStopLog(At(r, i))
    /\ \A j \in 1..(i - 1) : ~IsRet(At(r, j), "record_snippet")

C5_StopDuringCaptureCancels ==
    \A r \in Runs : \A i \in Idx(r) :
        (StopDuringCapture(r, i) /\ ~CaptureFailed(r))
            => /\ \A k \in Idx(r) : ~IsPipelineStep(At(r, k))
               /\ BackToIdle(r) =>
                    /\ \E k \in Idx(r) : IsRecording(At(r, k), FALSE)
                    /\ \E k \in Idx(r) : IsLog(At(r, k), "Recording cancelled")

(***************************************************************************)
(* C6.  If stop() is called while the run is transcribing, parsing,        *)
(* searching or awaiting the retry choice, the run starts no further       *)
(* pipeline step afterwards.  Stated as the claim has it; the code         *)
(* violates it.                                                            *)
(***************************************************************************)
C6_StopAfterCaptureEndsRun ==
    \A r \in Runs : \A i \in Idx(r) :
        (/\ IsStopLog(At(r, i))
         /\ \E j \in 1..(i - 1) : IsCall(At(r, j), "transcribe_file"))
            => \A k \in (i + 1)..Len(trace[r]) : ~IsPipelineStep(At(r, k))

(***************************************************************************)
(* The retry loop as the record shows it.                                  *)
(***************************************************************************)
IsPromptCall(e) == IsCall(e, "prompt")
IsPromptRet(e) == IsRet(e, "prompt")
IsEmptySearchRet(e) == IsRet(e, "search") /\ e.items = <<>>
IsExpandSearch(e) == IsSearchCall(e) /\ e.b

\* the answers the run has received to its retry prompts, in order
PromptAnswers(r) ==
    LET rets == SelectSeq(trace[r], IsPromptRet)
    IN [i \in 1..Len(rets) |-> rets[i].out]

\* the worker of run r has left the try block of _run_pipeline
Ended(r) == w[r].pc \in {"finally", "cleanup_status", "cleanup_log", "done"}

\* entry i of run r answers a prompt that offered expand, with "expand"
AnswerExpands(r, i) ==
    /\ IsPromptRet(At(r, i))
    /\ At(r, i).out = "expand"
    /\ \E j \in 1..(i - 1) :
         /\ IsPromptCall(At(r, j)) /\ At(r, j).b
         /\ \A k \in (j + 1)..(i - 1) : ~IsPromptCall(At(r, k))

(***************************************************************************)
(* C7.  Within a run: every empty search is followed by one retry prompt;  *)
(* the first prompt is called with expand_allowed = true and every later   *)
(* one with false; at most one search runs in expand mode; and when the    *)
(* host answers expand and then cancel, the run ends with no results       *)
(* emission of the worker, the one from start() being the only one.        *)
(***************************************************************************)
C7_ExpandOfferedOnce ==
    \A r \in Runs :
        /\ Count(r, IsPromptCall) = Count(r, IsEmptySearchRet)
        /\ \A i \in Idx(r) :
             IsPromptCall(At(r, i))
                => (At(r, i).b <=> \A j \in 1..(i - 1) : ~IsPromptCall(At(r, j)))
        /\ Count(r, IsExpandSearch) <= 1
        /\ PromptAnswers(r) = <<"expand", "cancel">>
             => /\ Ended(r)
                /\ \A i \in Idx(r) : ~IsWorkerResults(At(r, i))
                /\ Count(r, LAMBDA e : e.ch = "results") <= 1

\* a finished run whose host answered expand to the first prompt and cancel to
\* the second, the second having been called with expand_allowed = false
C7_Witness ==
    \E r \in Runs :
        /\ w[r].pc = "done"
        /\ PromptAnswers(r) = <<"expand", "cancel">>
        /\ Count(r, IsExpandSearch) = 1
        /\ \E i \in Idx(r) : IsPromptCall(At(r, i)) /\ ~At(r, i).b
        /\ \E i \in Idx(r) : At(r, i).ch = "results" /\ At(r, i).by = "fg"

(***************************************************************************)
(* C8.  A run makes at most two searches and at most two retry prompts.    *)
(* Every answer other than an expand that was offered -- retry, cancel,    *)
(* expand after the expansion was used, anything else, or the handler      *)
(* failing -- ends the run there: no search, prompt or results emission    *)
(* follows it.                                                             *)
(***************************************************************************)
C8_RetryLoopTerminates ==
    \A r \in Runs :
        /\ Count(r, IsSearchCall) <= 2
        /\ Count(r, IsPromptCall) <= 2
        /\ \A i \in Idx(r) :
             (IsPromptRet(At(r, i)) /\ ~AnswerExpands(r, i))
                => /\ Ended(r)
                   /\ \A k \in (i + 1)..Len(trace[r]) : ~IsPipelineStep(At(r, k))

\* a finished run that searched twice and whose second prompt was answered
\* expand although the expansion had been used
C8_Witness ==
    \E r \in Runs :
        /\ w[r].pc = "done"
        /\ PromptAnswers(r) = <<"expand", "expand">>
        /\ Count(r, IsSearchCall) = 2
        /\ Count(r, IsPromptCall) = 2

(***************************************************************************)
(* C9.  Under fair scheduling of the worker, every call it waits on        *)
(* returning or raising, every run that start() began reaches cleanup:     *)
(* its worker sets is_listening to false, then ends, and the run has       *)
(* emitted StatusChanged(false) exactly once -- never more than once at    *)
(* any time.                                                               *)
(***************************************************************************)
StatusFalseCount(r) == Count(r, LAMBDA e : IsStatus(e, FALSE))

AllSearchesEmpty(r) ==
    /\ \E i \in Idx(r) : IsRet(At(r, i), "search")
    /\ \A i \in Idx(r) : IsRet(At(r, i), "search") => At(r, i).items = <<>>

SearchModes(r) ==
    LET calls == SelectSeq(trace[r], IsSearchCall)
    IN [i \in 1..Len(calls) |-> calls[i].b]

C10_DefaultChoiceWithoutHandler ==
    \A r \in Runs :
        /\ \A i \in Idx(r) :
             (IsPromptCall(At(r, i)) /\ (~retry_prompt \/ At(r, i).out = "default"))
                => /\ At(r, i).out = "default"
                   /\ i < Len(trace[r])
                   /\ IsPromptRet(At(r, i + 1))
                   /\ At(r, i + 1).out = (IF At(r, i).b THEN "expand" ELSE "retry")
        /\ (~retry_prompt /\ Ended(r) /\ AllSearchesEmpty(r))
             => /\ SearchModes(r) = <<FALSE, TRUE>>
                /\ PromptAnswers(r) = <<"expand", "retry">>

\* a finished run with no handler whose two searches both came back empty
C10_Witness ==
    \E r \in Runs :
        /\ ~retry_prompt
        /\ w[r].pc = "done"
        /\ AllSearchesEmpty(r)
        /\ Count(r, IsSearchCall) = 2
        /\ Count(r, IsExpandSearch) = 1

(***************************************************************************)
(* _run_search on its own: the worker stands at a call of _run_search      *)
(* (line 148 or 156) with any intent, fallback query and expand flag.      *)
(***************************************************************************)
FieldValues == {None, Some(<<>>), Some(<<"z">>)}          \* None, "", "z"
TermValues == {<<>>, <<" ">>, <<"s">>}
AllIntents == {Intent(a, t, y, terms) : a \in FieldValues, t \in FieldValues,
                                        y \in FieldValues, terms \in TermValues}
Queries == {<<"q">>, <<"a", " ", "b">>}

\* a run in progress, its worker inside _handle_transcript with the given locals
AtHandleTranscript(pc, query, intent, expanded, record) ==
    /\ listening = TRUE
    /\ stop_event = 1
    /\ set_events = {}
    /\ latest_results = <<>>
    /\ retry_prompt \in BOOLEAN
    /\ intent_parser \in BOOLEAN
    /\ nworkers = 1
    /\ files = {1}
    /\ fgpc = "idle"
    /\ w = [r \in Runs |-> IF r = 1
                           THEN [IdleLocals EXCEPT !.pc = pc, !.snippet = 1, !.query = query,
                                                   !.intent = intent, !.expanded = expanded]
                           ELSE IdleLocals]
    /\ trace = [r \in Runs |-> IF r = 1 THEN record ELSE <<>>]
    /\ nStart = 1
    /\ nStop = 0
    /\ listeners = [ch \in Channels |-> <<>>]
    /\ emit = NoEmit
    /\ invoked = <<>>
    /\ gui = NoGui

RunSearchInit ==
    \E query \in Queries, intent \in {NoIntent} \cup {<<i>> : i \in AllIntents},
       expand \in BOOLEAN :
        AtHandleTranscript("run_search", query, intent, expand, <<>>)

\* _run_search, lines 235-247, up to the call of the Search Port
RunSearch ==
    /\ w[1].pc = "run_search"
    /\ trace' = Emit(1, SearchCall(1, w[1].intent, w[1].query, w[1].expanded))
    /\ w' = [w EXCEPT ![1].pc = "searching"]
    /\ UNCHANGED <<listening, set_events, latest_results, files>>
    /\ UNCHANGED Frame

RunSearchSpec == RunSearchInit /\ [][RunSearch]_vars

(***************************************************************************)
(* C11.  _run_search calls the field search, with exactly the intent's     *)
(* author, title and year, iff there is an intent, one of the three is     *)
(* non-empty and expand is false; otherwise it calls the keyword search    *)
(* with the intent's search terms if there is an intent and they are       *)
(* non-empty, else with the fallback query, in expand mode iff expand is   *)
(* true.  It makes one call.                                               *)
(***************************************************************************)
C11_SearchPolicy ==
    w[1].pc = "searching" =>
        LET intent == w[1].intent
            expand == w[1].expanded
            calls == SelectSeq(trace[1], LAMBDA e : e.ch = "call")
            present(f) == f # None /\ f[1] # <<>>
            fielded == /\ intent # NoIntent
                       /\ \/ present(intent[1].author)
                          \/ present(intent[1].title)
                          \/ present(intent[1].year)
                       /\ ~expand
        IN /\ Len(calls) = 1
           /\ fielded => /\ calls[1].s = "search_by_fields"
                         /\ calls[1].args = <<intent[1].author, intent[1].title, intent[1].year>>
           /\ ~fielded => /\ calls[1].s = "search_items"
                          /\ calls[1].b = expand
                          /\ calls[1].text = IF intent # NoIntent /\ intent[1].search_terms # <<>>
                                             THEN intent[1].search_terms
                                             ELSE w[1].query

\* the field search has been called with an author and no title or year
C11_Witness ==
    /\ w[1].pc = "searching"
    /\ trace[1] # <<>>
    /\ trace[1][Len(trace[1])].s = "search_by_fields"
    /\ trace[1][Len(trace[1])].args = <<Some(<<"z">>), None, None>>

(***************************************************************************)
(* C12.  When the Search Port raises, in a direct or an expanded search,   *)
(* the failure is logged and the run goes on as after an empty result:     *)
(* "No Zotero items matched" is logged and the retry prompt is called,     *)
(* offering expand iff it is the run's first prompt; no results are        *)
(* emitted for that search and no pipeline error is logged.                *)
(***************************************************************************)
IsFailedSearchRet(e) == IsRet(e, "search") /\ e.out = "error"

\* entries i.. of run r are "No Zotero items matched" and the call of the prompt
PromptsAt(r, i) ==
    /\ i + 1 <= Len(trace[r])
    /\ IsLog(At(r, i), "No Zotero items matched")
    /\ IsPromptCall(At(r, i + 1))
    /\ At(r, i + 1).b <=> \A j \in 1..i : ~IsPromptCall(At(r, j))

C12_SearchFailureIsEmptyResult ==
    \A r \in Runs : \A i \in Idx(r) :
        /\ IsFailedSearchRet(At(r, i))
             => /\ i + 1 <= Len(trace[r])
                /\ IsLog(At(r, i + 1), "Zotero search failed")
                /\ PromptsAt(r, i + 2)
        /\ (IsEmptySearchRet(At(r, i)) /\ ~IsFailedSearchRet(At(r, i)))
             => PromptsAt(r, i + 1)

\* a finished run whose direct and expanded searches both raised
C12_Witness ==
    \E r \in Runs :
        /\ w[r].pc = "done"
        /\ Count(r, IsFailedSearchRet) = 2
        /\ Count(r, IsPromptRet) = 2

(***************************************************************************)
(* C13.  When the Intent Port raises, the failure is logged and the run    *)
(* goes on without an intent: the search step follows at once, as a        *)
(* keyword search, not in expand mode, on the query that was handed to the *)
(* parser, and every later search of the run is a keyword search on that   *)
(* query too.                                                              *)
(***************************************************************************)
IsFailedParseRet(e) == IsRet(e, "parse") /\ e.out = "error"

C13_IntentFailureIsNotFatal ==
    \A r \in Runs : \A i \in Idx(r) :
        IsFailedParseRet(At(r, i))
            => /\ Count(r, LAMBDA e : IsCall(e, "parse")) = 1
               /\ i + 4 <= Len(trace[r])
               /\ IsLog(At(r, i + 1), "Intent parsing failed")
               /\ IsLog(At(r, i + 2), "Searching Zotero...")
               /\ IsLog(At(r, i + 3), "Keyword search (direct)")
               /\ IsCall(At(r, i + 4), "search_items") /\ ~At(r, i + 4).b
               /\ \A k \in (i + 1)..Len(trace[r]) :
                    IsSearchCall(At(r, k))
                        => /\ IsCall(At(r, k), "search_items")
                           /\ \E j \in 1..(i - 1) : /\ IsCall(At(r, j), "parse")
                                                    /\ At(r, k).text = At(r, j).text
               /\ (w[r].pc \in {"searching", "awaiting"} => w[r].intent = NoIntent)

\* a finished run whose intent parse failed and whose search found items
C13_Witness ==
    \E r \in Runs :
        /\ w[r].pc = "done"
        /\ \E i \in Idx(r) : IsFailedParseRet(At(r, i))
        /\ \E i \in Idx(r) : IsWorkerResults(At(r, i))

(***************************************************************************)
(* C14.  A failure of the capture or of the transcription ends the run:    *)
(* it is logged at once, the run then emits no transcript, starts no       *)
(* parse, search or prompt and emits no results, and -- the worker being   *)
(* scheduled fairly -- it goes through cleanup, which emits                *)
(* RecordingChanged(false) and StatusChanged(false).                       *)
(***************************************************************************)
IsFatalRet(e) ==
    \/ IsRet(e, "record_snippet") /\ e.out \in {"invalid_duration", "device_error", "write_error"}
    \/ IsRet(e, "transcribe_file") /\ e.out = "error"

FailedFatally(r) == \E i \in Idx(r) : IsFatalRet(At(r, i))

C14_FatalFailureSafe ==
    \A r \in Runs : \A i \in Idx(r) :
        IsFatalRet(At(r, i))
            => /\ i + 1 <= Len(trace[r])
               /\ IsLog(At(r, i + 1), "Pipeline error")
               /\ Ended(r)
               /\ \A k \in (i + 1)..Len(trace[r]) :
                    At(r, k).ch # "transcript" /\ ~IsPipelineStep(At(r, k))

C14_CaptureOrTranscriptionFailureIsFatal ==
    /\ []C14_FatalFailureSafe
    /\ \A r \in Runs :
         FailedFatally(r)
            ~> /\ w[r].pc = "done"
               /\ StatusFalseCount(r) = 1
               /\ \E k \in Idx(r) : IsRecording(At(r, k), FALSE)

\* a finished run whose transcription failed after a capture that succeeded
C14_Witness ==
    \E r \in Runs :
        /\ w[r].pc = "done"
        /\ \E i \in Idx(r) : IsRet(At(r, i), "transcribe_file") /\ At(r, i).out = "error"
        /\ \E i \in Idx(r) : IsRet(At(r, i), "record_snippet") /\ At(r, i).out = "ok"
        /\ StatusFalseCount(r) = 1

(***************************************************************************)
(* C15.  When the transcript is empty after trimming, the raw transcript   *)
(* is still delivered to the transcript listeners, "Nothing transcribed"   *)
(* is logged and the run ends: no parse, no search, no prompt and no       *)
(* results emission follow.                                                *)
(***************************************************************************)
IsBlankTranscriptRet(e) ==
    IsRet(e, "transcribe_file") /\ e.out = "ok" /\ \A k \in 1..Len(e.text) : e.text[k] \in Whitespace

C15_EmptyTranscriptEndsRun ==
    \A r \in Runs : \A i \in Idx(r) :
        IsBlankTranscriptRet(At(r, i))
            => /\ i + 3 <= Len(trace[r])
               /\ At(r, i + 2).ch = "transcript" /\ At(r, i + 2).text = At(r, i).text
               /\ IsLog(At(r, i + 3), "Nothing transcribed")
               /\ Ended(r)
               /\ \A k \in (i + 1)..Len(trace[r]) : ~IsPipelineStep(At(r, k))

\* a finished run whose transcript was a single space, delivered as such
C15_Witness ==
    \E r \in Runs :
        /\ w[r].pc = "done"
        /\ \E i \in Idx(r) : At(r, i).ch = "transcript" /\ At(r, i).text = <<" ">>
        /\ \E i \in Idx(r) : IsLog(At(r, i), "Nothing transcribed")

(***************************************************************************)
(* _extract_query on its own: the worker stands at line 112, having just   *)
(* delivered the transcript, for every transcript of a bounded length.     *)
(***************************************************************************)
Chars == {"k", "w", "K", "f", "a", " ", ","}
TextsUpTo(n) == UNION {[1..k -> Chars] : k \in 0..n}

ExtractInit ==
    \E transcript \in TextsUpTo(MaxLen) :
        AtHandleTranscript("handle_transcript", <<>>, NoIntent, FALSE,
                           <<TranscriptEv(1, transcript)>>)

\* line 133: query = self._extract_query(transcript)
ExtractQuery ==
    /\ w[1].pc = "handle_transcript"
    /\ w' = [w EXCEPT ![1].pc = "extracted", ![1].query = _extract_query(trace[1][1].text)]
    /\ UNCHANGED <<listening, set_events, latest_results, files, trace>>
    /\ UNCHANGED Frame

ExtractSpec == ExtractInit /\ [][ExtractQuery]_vars

\* reading the transcript of the state
Heard == trace[1][1].text
HeardLower == Lower(Heard)
KeywordAt(kw, i) ==
    /\ i + Len(kw) - 1 <= Len(Heard)
    /\ \A k \in 1..Len(kw) : HeardLower[i + k - 1] = kw[k]
KeywordHeard(kw) == kw # <<>> /\ \E i \in 1..Len(Heard) : KeywordAt(kw, i)
AnyKeywordHeard == \E n \in 1..Len(activation_keywords) : KeywordHeard(activation_keywords[n])

NoOuterWhitespace(t) == t = <<>> \/ (t[1] \notin Whitespace /\ t[Len(t)] \notin Whitespace)

\* t without its leading and trailing whitespace
Trimmed(t) ==
    CHOOSE u \in {SubSeq(t, a, b) : a \in 1..(Len(t) + 1), b \in 0..Len(t)} :
        /\ NoOuterWhitespace(u)
        /\ \E a \in 1..(Len(t) + 1) :
             /\ a + Len(u) - 1 <= Len(t)
             /\ u = SubSeq(t, a, a + Len(u) - 1)
             /\ \A k \in 1..(a - 1) : t[k] \in Whitespace
             /\ \A k \in (a + Len(u))..Len(t) : t[k] \in Whitespace

\* t without its trailing punctuation
WithoutTrailingPunctuation(t) ==
    LET n == CHOOSE n \in 0..Len(t) :
                 /\ \A k \in (n + 1)..Len(t) : t[k] \in Punctuation
                 /\ (n > 0 => t[n] \notin Punctuation)
    IN SubSeq(t, 1, n)

(***************************************************************************)
(* C16.  For a transcript in which a configured activation keyword occurs  *)
(* (case-insensitively), _extract_query returns the text after the first   *)
(* occurrence of the first such keyword, trimmed of surrounding whitespace *)
(* and of trailing punctuation, or the trimmed transcript when that is     *)
(* empty; the query has no leading or trailing whitespace.  Stated as the  *)
(* claim has it; the code violates it.                                     *)
(***************************************************************************)
C16_QueryAfterKeyword ==
    (w[1].pc = "extracted" /\ AnyKeywordHeard) =>
        LET t == Trimmed(Heard)
            tl == Lower(t)
            occurs(kw, i) == /\ i + Len(kw) - 1 <= Len(t)
                             /\ \A k \in 1..Len(kw) : tl[i + k - 1] = kw[k]
            n == CHOOSE n \in 1..Len(activation_keywords) :
                     /\ KeywordHeard(activation_keywords[n])
                     /\ \A m \in 1..(n - 1) : ~KeywordHeard(activation_keywords[m])
            kw == activation_keywords[n]
            first == CHOOSE i \in 1..Len(t) :
                         occurs(kw, i) /\ \A j \in 1..(i - 1) : ~occurs(kw, j)
            rest == SubSeq(t, first + Len(kw), Len(t))
            remainder == WithoutTrailingPunctuation(Trimmed(rest))
        IN /\ w[1].query = IF remainder # <<>> THEN remainder ELSE t
           /\ NoOuterWhitespace(w[1].query)

(***************************************************************************)
(* C17.  For a transcript in which no configured activation keyword occurs *)
(* (case-insensitively), _extract_query returns the transcript without its *)
(* leading and trailing whitespace, and no query when nothing is left.     *)
(***************************************************************************)
C17_QueryWithoutKeyword ==
    (w[1].pc = "extracted" /\ ~AnyKeywordHeard) => w[1].query = Trimmed(Heard)

\* the transcript " Ka" has given the query "Ka"
C17_Witness ==
    /\ w[1].pc = "extracted"
    /\ Heard = <<" ", "K", "a">>
    /\ w[1].query = <<"K", "a">>

(***************************************************************************)
(* C18.  In the run that start() began, StatusChanged(true) is the first   *)
(* event, the initial ResultsChanged([]) of start() precedes every event   *)
(* emitted by the worker, and so never follows a ResultsChanged with       *)
(* items of that run.  Stated as the claim has it; the code violates it.   *)
(***************************************************************************)
IsInitialResults(e) == e.ch = "results" /\ e.by = "fg"
IsWorkerEvent(e) == e.by = "worker" /\ e.ch \notin {"call", "ret"}

C18_InitialResultsBeforeWorkerEvents ==
    \A r \in Runs :
        (r = nworkers /\ trace[r] # <<>>)
            => /\ IsStatus(At(r, 1), TRUE)
               /\ \A k \in Idx(r) :
                    IsWorkerEvent(At(r, k))
                        => \E j \in 1..(k - 1) : IsInitialResults(At(r, j))
               /\ \A k \in Idx(r) :
                    IsInitialResults(At(r, k))
                        => \A j \in 1..(k - 1) :
                             ~(IsWorkerResults(At(r, j)) /\ At(r, j).items # <<>>)

(***************************************************************************)
(* The notification channels on their own: add_*_listener (lines 46-59)    *)
(* and the loop of _push_status, _log, _push_transcript,                   *)
(* _push_recording_state and _push_results (lines 179-198).  A callback    *)
(* may be registered, by another thread, while a loop is running; the      *)
(* loop of a Python list then reaches it too.                              *)
(***************************************************************************)
Callbacks == {"f", "g"}

Registered ==
    Len(listeners["status"]) + Len(listeners["log"]) + Len(listeners["transcript"])
        + Len(listeners["recording"]) + Len(listeners["results"])

\* a callback list reversed
RECURSIVE Reversed(_)
Reversed(q) == IF q = <<>> THEN <<>> ELSE Append(Reversed(Tail(q)), Head(q))

\* the loop going through the list from its end
SubscribersReversed(ch) == Reversed(listeners[ch])

\* the list a _push_* / _log call iterates over
SubscribersOf(ch) == listeners[ch]

\* add_status_listener, add_log_listener, ...: append to the channel's list
AddListener ==
    /\ Registered < MaxListeners
    /\ \E ch \in Channels, cb \in Callbacks :
         listeners' = [listeners EXCEPT ![ch] = Append(@, cb)]
    /\ UNCHANGED <<listening, stop_event, set_events, latest_results, retry_prompt,
                   intent_parser, nworkers, files, fgpc, w, trace, nStart, nStop,
                   emit, invoked, gui>>

\* a _push_* / _log call begins; _push_results first assigns _latest_results (line 196)
Push ==
    /\ emit.done
    /\ \E ch \in Channels :
         /\ emit' = [ch |-> ch, i |-> 1, n0 |-> Len(listeners[ch]), done |-> FALSE]
         /\ IF ch = "results"
            THEN latest_results' \in ResultLists
            ELSE UNCHANGED latest_results
    /\ invoked' = <<>>
    /\ UNCHANGED <<listening, stop_event, set_events, retry_prompt, intent_parser, nworkers,
                   files, fgpc, w, trace, nStart, nStop, listeners, gui>>

\* one iteration of `for callback in <list>: callback(...)`, or the end of the loop
Deliver ==
    /\ ~emit.done
    /\ IF emit.i <= Len(SubscribersOf(emit.ch))
       THEN /\ invoked' = Append(invoked, SubscribersOf(emit.ch)[emit.i])
            /\ emit' = [emit EXCEPT !.i = @ + 1]
       ELSE /\ emit' = [emit EXCEPT !.done = TRUE]
            /\ UNCHANGED invoked
    /\ UNCHANGED <<listening, stop_event, set_events, latest_results, retry_prompt,
                   intent_parser, nworkers, files, fgpc, w, trace, nStart, nStop, listeners,
                   gui>>

ListenerNext == AddListener \/ Push \/ Deliver

ListenerSpec == Init /\ [][ListenerNext]_vars

C20_StopWhileIdleIsNoOp ==
    [][(nStop' = nStop + 1 /\ ~listening)
        => UNCHANGED <<listening, stop_event, set_events, latest_results, retry_prompt,
                       nworkers, files, fgpc, w, trace, listeners, emit, invoked>>]_vars

\* stop() has been called while the pipeline was idle: the one run has ended and
\* its record holds no log line of stop()
C20_Witness ==
    /\ nStop = 1
    /\ nworkers = 1
    /\ w[1].pc = "done"
    /\ ~listening
    /\ 1 \in set_events
    /\ \A i \in Idx(1) : ~IsStopLog(At(1, i))

(***************************************************************************)
(* C21.  Cleanup of a run emits RecordingChanged(false), sets the          *)
(* cancellation flag, sets is_listening to false, emits                    *)
(* StatusChanged(false) and logs "Assistant stopped", in this order; so    *)
(* is_listening is false at the moment StatusChanged(false) is emitted,    *)
(* and the last RecordingChanged of the run is false.  Stated as the claim *)
(* has it; the code violates it.                                           *)
(***************************************************************************)
C21_CleanupRecord ==
    \A r \in Runs :
        /\ BackToIdle(r) =>
             /\ r \in set_events
             /\ \E j \in Idx(r) :
                  /\ IsRecording(At(r, j), FALSE)
                  /\ \A k \in (j + 1)..Len(trace[r]) : At(r, k).ch # "recording"
        /\ \A k \in Idx(r) :
             IsStatus(At(r, k), FALSE)
                => /\ w[r].pc \in {"cleanup_log", "done"}
                   /\ \E j \in 1..(k - 1) : IsRecording(At(r, j), FALSE)
        /\ \A k \in Idx(r) :
             IsLog(At(r, k), "Assistant stopped")
                => \E j \in 1..(k - 1) : IsStatus(At(r, j), FALSE)

C21_CleanupOrder ==
    /\ []C21_CleanupRecord
    /\ [][\A r \in Runs :
            (w[r].pc = "cleanup_status" /\ w'[r].pc = "cleanup_log") => ~listening]_vars

(***************************************************************************)
(* C23.  _latest_results is written only by the background run: every step *)
(* that changes it is a step of a worker thread, never of start(), stop()  *)
(* or another foreground operation.  Stated as the claim has it; the code  *)
(* violates it.                                                            *)
(***************************************************************************)
C23_OnlyWorkerWritesLatestResults ==
    [][latest_results' # latest_results
          => /\ fgpc' = fgpc
             /\ \E r \in Runs : w'[r] # w[r]]_vars

(***************************************************************************)
(* C24.  A run emits a non-empty ResultsChanged at most once, and only as  *)
(* its last pipeline step before cleanup; the list emitted is the list the *)
(* latest search call returned, unmodified; and the step that emits it     *)
(* leaves _latest_results equal to that list.                              *)
(***************************************************************************)
IsFoundResults(e) == IsWorkerResults(e) /\ e.items # <<>>

IsSearchRet(e) == IsRet(e, "search")

C24_ResultsRecord ==
    \A r \in Runs :
        /\ Count(r, IsFoundResults) <= 1
        /\ \A k \in Idx(r) :
             IsWorkerResults(At(r, k))
                => /\ At(r, k).items # <<>>
                   /\ w[r].pc \in {"finally", "cleanup_status", "cleanup_log", "done"}
                   /\ \A j \in (k + 1)..Len(trace[r]) : ~IsPipelineStep(At(r, j))
                   /\ \E j \in 1..(k - 1) :
                        /\ IsSearchRet(At(r, j))
                        /\ At(r, j).out = "ok"
                        /\ At(r, j).items = At(r, k).items
                        /\ \A i \in (j + 1)..(k - 1) : ~IsPipelineStep(At(r, i))

C24_ResultsEmittedOnceAndStored ==
    /\ []C24_ResultsRecord
    /\ [][\A r \in Runs :
            \A k \in (Len(trace[r]) + 1)..Len(trace'[r]) :
                IsWorkerResults(trace'[r][k]) => latest_results' = trace'[r][k].items]_vars

\* a run has found two items and emitted them, and they are the latest results
C24_Witness ==
    \E r \in Runs :
        /\ w[r].pc = "finally"
        /\ \E k \in Idx(r) : IsWorkerResults(At(r, k)) /\ Len(At(r, k).items) = 2
                               /\ latest_results = At(r, k).items

(***************************************************************************)
(* C27.  has_structured_filters is true iff at least one of author, title  *)
(* and year is a non-empty string; hence every call of the field search    *)
(* carries a non-empty filter, and the port's guard against all filters    *)
(* being empty never fires in a run.                                       *)
(***************************************************************************)
NonEmptyField(f) == Len(f) = 1 /\ Len(f[1]) > 0

C27_FieldSearchHasFilter ==
    /\ w[1].intent # NoIntent =>
         (has_structured_filters(w[1].intent[1])
            <=> \/ NonEmptyField(w[1].intent[1].author)
                \/ NonEmptyField(w[1].intent[1].title)
                \/ NonEmptyField(w[1].intent[1].year))
    /\ \A k \in Idx(1) :
         IsCall(At(1, k), "search_by_fields")
            => /\ \E i \in 1..3 : NonEmptyField(At(1, k).args[i])
               /\ ~AllFiltersEmpty(At(1, k).args[1], At(1, k).args[2], At(1, k).args[3])

\* the field search has been called with an empty author, no title, and a year
C27_Witness ==
    /\ w[1].pc = "searching"
    /\ \E k \in Idx(1) :
         /\ IsCall(At(1, k), "search_by_fields")
         /\ At(1, k).args = <<Some(<<>>), None, Some(<<"z">>)>>

(***************************************************************************)
(* C28.  Each run starts with a clear cancellation flag: start() gives the *)
(* run an Event that is not set, so neither a stop() of an earlier run nor *)
(* the flag set by that run's cleanup cancels it; the capture of a run is  *)
(* cancelled only after a stop() that was called after the start() that    *)
(* began the run.                                                          *)
(***************************************************************************)
IsCancelledRet(e) == IsRet(e, "record_snippet") /\ e.out = "cancelled"

StoppedBefore(r, k) == \E j \in 1..(k - 1) : IsStopLog(At(r, j)) /\ At(r, j).run = r

C28_CancelledOnlyByOwnStop ==
    \A r \in Runs :
        /\ \A k \in Idx(r) : IsCancelledRet(At(r, k)) => StoppedBefore(r, k)
        /\ (w[r].pc = "poll" /\ w[r].ev \in set_events) => StoppedBefore(r, Len(trace[r]) + 1)
        /\ (w[r].pc \in {"begin", "enter"} /\ stop_event \in set_events)
              => StoppedBefore(r, Len(trace[r]) + 1)

C28_RunStartsWithClearFlag ==
    /\ []C28_CancelledOnlyByOwnStop
    /\ [][nworkers' # nworkers
            => stop_event' # stop_event /\ stop_event' \notin set_events']_vars

\* the second run has captured its clip to the end although the flag of the first
\* run is set and stop() was called before the second run began
C28_Witness ==
    /\ nworkers = 2
    /\ w[2].pc = "transcribing"
    /\ nStop = 1
    /\ 1 \in set_events
    /\ \A k \in Idx(2) : ~IsStopLog(At(2, k))

(***************************************************************************)
(* _handle_transcript from the extracted query to its first port call, for *)
(* every transcript of up to MaxLen characters.                            *)
(***************************************************************************)
\* lines 134-148: the "Nothing transcribed" return, or the call of the intent
\* parser, or (without a parser) the first search
HandleQuery ==
    /\ w[1].pc = "extracted"
    /\ IF ~(w[1].query # <<>>)
       THEN /\ trace' = Emit(1, <<WLog(1, "Nothing transcribed")>>)
            /\ w' = [w EXCEPT ![1] = ToFinally(@)]
       ELSE IF intent_parser
       THEN /\ trace' = Emit(1, <<WLog(1, "Parsing input"),
                                   CallEv(1, "parse", FALSE, "", w[1].query, <<>>)>>)
            /\ w' = [w EXCEPT ![1].pc = "parsing"]
       ELSE /\ trace' = Emit(1, <<WLog(1, "Searching Zotero...")>>
                                 \o SearchCall(1, NoIntent, w[1].query, FALSE))
            /\ w' = [w EXCEPT ![1].pc = "searching"]
    /\ UNCHANGED <<listening, set_events, latest_results, files>>
    /\ UNCHANGED Frame

HandleTranscriptSpec == ExtractInit /\ [][ExtractQuery \/ HandleQuery]_vars

(***************************************************************************)
(* C29.  Whenever the pipeline calls the intent parser or the keyword      *)
(* search, the query it passes is not empty and not made of whitespace     *)
(* alone, whatever the transcript.  Stated as the claim has it; the code   *)
(* violates it.                                                            *)
(***************************************************************************)
Blank(t) == \A i \in 1..Len(t) : t[i] \in Whitespace

C29_QueryNeverBlank ==
    \A k \in Idx(1) :
        (IsCall(At(1, k), "parse") \/ IsCall(At(1, k), "search_items"))
            => ~Blank(At(1, k).text)

(***************************************************************************)
(* The return of the intent parser and the summary logged for it, for      *)
(* every combination of absent, empty and given author, title and year.    *)
(***************************************************************************)
SummarizedIntents ==
    {Intent(a, t, y, terms) : a \in {None, Some(<<>>), Some(<<"A", "l">>)},
                              t \in {None, Some(<<>>), Some(<<"T">>)},
                              y \in {None, Some(<<>>), Some(<<"1", "9">>)},
                              terms \in TermValues}

SummarizeInit ==
    /\ \E query \in Queries :
         AtHandleTranscript("parsing", query, NoIntent, FALSE,
                            <<CallEv(1, "parse", FALSE, "", query, <<>>)>>)
    /\ intent_parser

\* line 142 returns an intent; line 143 logs its summary
Summarize ==
    /\ w[1].pc = "parsing"
    /\ \E intent \in SummarizedIntents :
         /\ trace' = Emit(1, <<RetEv(1, "parse", "ok", <<>>, <<>>),
                                LogTextEv(1, "worker", "Intent summary",
                                          _summarize_intent(intent))>>)
         /\ w' = [w EXCEPT ![1].pc = "summarized", ![1].intent = <<intent>>]
    /\ UNCHANGED <<listening, set_events, latest_results, files>>
    /\ UNCHANGED Frame

SummarizeSpec == SummarizeInit /\ [][Summarize]_vars

(***************************************************************************)
(* C25.  The summary of a parsed intent names the fields that are present  *)
(* (non-empty), in the order author, title, year, joined as "a", "a and b" *)
(* or "a, b, and c", followed by their values in the same order; when no   *)
(* field is present it states the keyword search terms.                    *)
(***************************************************************************)
C25_IntentSummary ==
    w[1].pc = "summarized" =>
        LET intent == w[1].intent[1]
            a == NonEmptyField(intent.author)
            t == NonEmptyField(intent.title)
            y == NonEmptyField(intent.year)
            summary == At(1, Len(trace[1])).text
            fields ==
                CASE a /\ t /\ y -> <<"author", ", ", "title", ", and ", "year", " ", "fields">>
                  [] a /\ t /\ ~y -> <<"author", " and ", "title", " ", "fields">>
                  [] a /\ ~t /\ y -> <<"author", " and ", "year", " ", "fields">>
                  [] ~a /\ t /\ y -> <<"title", " and ", "year", " ", "fields">>
                  [] a /\ ~t /\ ~y -> <<"author", " ", "field">>
                  [] ~a /\ t /\ ~y -> <<"title", " ", "field">>
                  [] ~a /\ ~t /\ y -> <<"year", " ", "field">>
                  [] OTHER -> <<>>
            av == IF a THEN intent.author[1] ELSE <<>>
            tv == IF t THEN intent.title[1] ELSE <<>>
            yv == IF y THEN intent.year[1] ELSE <<>>
            values == av \o (IF a /\ (t \/ y) THEN <<", ">> ELSE <<>>)
                         \o tv \o (IF t /\ y THEN <<", ">> ELSE <<>>) \o yv
        IN /\ IsLog(At(1, Len(trace[1])), "Intent summary")
           /\ summary = IF a \/ t \/ y
                        THEN <<"Inputs for ">> \o fields \o <<" detected: ">> \o values \o <<".">>
                        ELSE <<"Keyword search terms detected: ">> \o intent.search_terms

\* an intent with author, title and year has been summarised
C25_Witness ==
    /\ w[1].pc = "summarized"
    /\ w[1].intent[1].author = Some(<<"A", "l">>)
    /\ w[1].intent[1].title = Some(<<"T">>)
    /\ w[1].intent[1].year = Some(<<"1", "9">>)
    /\ At(1, Len(trace[1])).text =
          <<"Inputs for ", "author", ", ", "title", ", and ", "year", " ", "fields",
            " detected: ", "A", "l", ", ", "T", ", ", "1", "9", ".">>

(***************************************************************************)
(* resolve_item_location and ZoteroClient.get_attachment_or_url, for every *)
(* item with up to MaxAttachments child attachments.                       *)
(***************************************************************************)
\* the loop of get_attachment_or_url (lines 74-83) taking attachments of any type
RECURSIVE FirstAttachmentLocation(_)
FirstAttachmentLocation(attachments) ==
    IF attachments = <<>> THEN None
    ELSE LET att == Head(attachments) IN
         IF Truthy(att.path) THEN att.path
         ELSE IF Truthy(att.link) THEN att.link
         ELSE FirstAttachmentLocation(Tail(attachments))

\* the loop of get_attachment_or_url, lines 74-83
RECURSIVE FirstPdfLocation(_)
FirstPdfLocation(attachments) ==
    IF attachments = <<>> THEN None
    ELSE LET att == Head(attachments) IN
         IF ~att.pdf THEN FirstPdfLocation(Tail(attachments))
         ELSE IF Truthy(att.path) THEN att.path
         ELSE IF Truthy(att.link) THEN att.link
         ELSE FirstPdfLocation(Tail(attachments))

\* get_attachment_or_url, lines 72-90
get_attachment_or_url(item) ==
    LET found == FirstPdfLocation(item.attachments) IN
    IF found # None THEN found
    ELSE IF Truthy(item.url) THEN item.url
    ELSE IF Truthy(item.alternate) THEN item.alternate
    ELSE None

\* a field of an item or attachment: missing, the empty string, or the given text
FieldKinds == {"missing", "empty", "given"}
FieldOf(kind, text) ==
    CASE kind = "missing" -> None
      [] kind = "empty" -> Some(<<>>)
      [] OTHER -> Some(text)

Ordinal == <<"1", "2", "3", "4">>

\* the k-th child: whether it is a PDF, its data.path and its links.enclosure.href
Attachment(k, shape) ==
    [pdf |-> shape[1], path |-> FieldOf(shape[2], <<"p", Ordinal[k]>>),
     link |-> FieldOf(shape[3], <<"l", Ordinal[k]>>)]

Items ==
    {[attachments |-> [k \in 1..Len(shapes) |-> Attachment(k, shapes[k])],
      url |-> FieldOf(u, <<"u">>), alternate |-> FieldOf(a, <<"a">>)] :
        shapes \in UNION {[1..n -> BOOLEAN \X FieldKinds \X FieldKinds] : n \in 0..MaxAttachments},
        u \in FieldKinds, a \in FieldKinds}

ResolveCall(item) ==
    Entry("call", 1, "fg", FALSE, "get_attachment_or_url", "", <<>>, <<>>, <<item>>)
ResolveRet(out, location) ==
    Entry("ret", 1, "fg", FALSE, "get_attachment_or_url", out, location, <<>>, <<>>)

\* a run has ended; resolve_item_location has been called with an item, and line 86
\* has called the port
ResolveInit ==
    /\ listening = FALSE
    /\ stop_event = 1
    /\ set_events = {1}
    /\ latest_results = <<"i2", "i1">>
    /\ retry_prompt \in BOOLEAN
    /\ intent_parser \in BOOLEAN
    /\ nworkers = 1
    /\ files = {}
    /\ fgpc = "resolving"
    /\ w = [r \in Runs |-> IF r = 1 THEN [IdleLocals EXCEPT !.pc = "done"] ELSE IdleLocals]
    /\ \E item \in Items : trace = [r \in Runs |-> IF r = 1 THEN <<ResolveCall(item)>> ELSE <<>>]
    /\ nStart = 1
    /\ nStop = 0
    /\ listeners = [ch \in Channels |-> <<>>]
    /\ emit = NoEmit
    /\ invoked = <<>>
    /\ gui = NoGui

\* resolve_item_location, lines 86-91: the port returns a location or nothing, or
\* raises (the library call of line 73 failed)
ResolveItemLocation ==
    /\ fgpc = "resolving"
    /\ LET item == trace[1][1].args[1]
           location == get_attachment_or_url(item)
       IN \/ trace' = Emit(1, <<ResolveRet("ok", location),
                                IF Truthy(location)
                                THEN LogTextEv(1, "fg", "Resolved location", location[1])
                                ELSE LogEv(1, "fg", "No attachment or URL available")>>)
          \/ trace' = Emit(1, <<ResolveRet("error", None)>>)
    /\ fgpc' = "idle"
    /\ UNCHANGED <<listening, stop_event, set_events, latest_results, retry_prompt,
                   intent_parser, nworkers, files, w, nStart, nStop>>
    /\ UNCHANGED Subscribers
    /\ UNCHANGED gui

ResolveSpec == ResolveInit /\ [][ResolveItemLocation]_vars

(***************************************************************************)
(* C26.  get_attachment_or_url returns the local path, else the enclosure  *)
(* link, of the first PDF attachment that has a path or a link; when no    *)
(* PDF attachment has either, the item's own URL; else the item's          *)
(* alternate link; else nothing.  A path or link of an attachment that is  *)
(* not a PDF is never returned.                                            *)
(***************************************************************************)
C26_LocationPriority ==
    \A n \in Idx(1) :
        (IsRet(At(1, n), "get_attachment_or_url") /\ At(1, n).out = "ok") =>
            LET item == At(1, 1).args[1]
                atts == item.attachments
                returned == At(1, n).text
                usable(k) == atts[k].pdf /\ (NonEmptyField(atts[k].path)
                                              \/ NonEmptyField(atts[k].link))
                first == {k \in 1..Len(atts) : usable(k) /\ \A j \in 1..(k - 1) : ~usable(j)}
            IN /\ \A k \in first :
                    returned = IF NonEmptyField(atts[k].path) THEN atts[k].path
                               ELSE atts[k].link
               /\ first = {} =>
                    returned = IF NonEmptyField(item.url) THEN item.url
                               ELSE IF NonEmptyField(item.alternate) THEN item.alternate
                               ELSE None
               /\ \A k \in 1..Len(atts) :
                    ~atts[k].pdf => returned \notin {atts[k].path, atts[k].link} \ {None}

\* the link of the second attachment has been returned: the first is not a PDF and
\* has a path, the second is a PDF without a path
C26_Witness ==
    /\ fgpc = "idle"
    /\ Len(trace[1]) = 3
    /\ Len(At(1, 1).args[1].attachments) = 2
    /\ ~At(1, 1).args[1].attachments[1].pdf
    /\ At(1, 1).args[1].attachments[1].path = Some(<<"p", "1">>)
    /\ At(1, 1).args[1].attachments[2].path = Some(<<>>)
    /\ At(1, 2).text = Some(<<"l", "2">>)
    /\ IsLog(At(1, 3), "Resolved location")

(***************************************************************************)
(* AssistantGUI as the retry-prompt handler: _prompt_retry on the worker   *)
(* thread, the Tk main loop and the user on the foreground.                *)
(***************************************************************************)
\* what a step of the hand-off leaves alone besides w, trace and gui
BesidesPrompt == <<listening, stop_event, set_events, latest_results, retry_prompt,
                   intent_parser, nworkers, files, fgpc, nStart, nStop, listeners, emit,
                   invoked>>

\* the worker has called the handler (controller.py line 203) after an empty search
PromptInit ==
    /\ \E query \in Queries, intent \in {NoIntent} \cup {<<i>> : i \in Intents},
          expanded \in BOOLEAN :
         AtHandleTranscript("awaiting", query, intent, expanded,
                            <<CallEv(1, "prompt", ExpandAllowed(expanded), "handler",
                                     <<>>, <<>>)>>)
    /\ retry_prompt

\* the expand_allowed the handler was called with
PromptExpandAllowed == trace[1][1].b

\* _prompt_retry, lines 204-212, with _schedule (216-218): the holder and the Event
\* are made and prompt() is queued if the window exists.  On a destroyed window
\* winfo_exists() answers false, or Tk raises TclError.
GSchedule ==
    /\ w[1].pc = "awaiting"
    /\ \/ /\ gui.window
          /\ gui' = [gui EXCEPT !.holder = "retry", !.wait_event = FALSE, !.queued = TRUE]
          /\ w' = [w EXCEPT ![1].pc = "waiting"]
          /\ UNCHANGED trace
       \/ /\ ~gui.window
          /\ gui' = [gui EXCEPT !.holder = "retry", !.wait_event = FALSE]
          /\ w' = [w EXCEPT ![1].pc = "waiting"]
          /\ UNCHANGED trace
       \/ /\ ~gui.window
          /\ Raise(1, <<RetEv(1, "prompt", "error", <<>>, <<>>)>>, "Pipeline error")
          /\ UNCHANGED gui
    /\ UNCHANGED BesidesPrompt

\* the main loop runs prompt(): line 208 opens the modal RetryDialog
GRunPrompt ==
    /\ gui.window
    /\ gui.queued
    /\ gui' = [gui EXCEPT !.queued = FALSE, !.dialog = TRUE]
    /\ UNCHANGED <<w, trace>>
    /\ UNCHANGED BesidesPrompt

\* the result a closed dialog leaves in the holder (line 209)
DialogResult(result) == IF result # "" THEN result ELSE "cancel"

\* the user presses a button of the dialog (lines 248-269) or dismisses it; then
\* lines 209-210 of prompt()
GDialogClosed ==
    /\ gui.dialog
    /\ \E result \in {"retry", "cancel", ""} \cup (IF PromptExpandAllowed THEN {"expand"} ELSE {}) :
         gui' = [gui EXCEPT !.dialog = FALSE, !.result = result,
                            !.holder = DialogResult(result), !.wait_event = TRUE]
    /\ UNCHANGED <<w, trace>>
    /\ UNCHANGED BesidesPrompt

\* the user closes the main window: callbacks still queued are dropped; an open
\* dialog is destroyed with it, which ends prompt() without a choice
GCloseWindow ==
    /\ gui.window
    /\ gui' = IF gui.dialog
              THEN [gui EXCEPT !.window = FALSE, !.queued = FALSE, !.dialog = FALSE,
                               !.result = "", !.holder = DialogResult(""),
                               !.wait_event = TRUE]
              ELSE [gui EXCEPT !.window = FALSE, !.queued = FALSE]
    /\ UNCHANGED <<w, trace>>
    /\ UNCHANGED BesidesPrompt

\* wait_event.wait() returns; line 214 returns the holder's value to the controller,
\* which goes on with lines 153-162
GWake ==
    /\ w[1].pc = "waiting"
    /\ gui.wait_event
    /\ AfterChoice(1, <<RetEv(1, "prompt", gui.holder, <<>>, <<>>)>>, gui.holder)
    /\ UNCHANGED gui
    /\ UNCHANGED BesidesPrompt

PromptNext == GSchedule \/ GRunPrompt \/ GDialogClosed \/ GCloseWindow \/ GWake

PromptSpec == PromptInit /\ [][PromptNext]_vars

\* the worker thread runs; the main loop runs queued callbacks while the window
\* exists; the user answers an open dialog
PromptFairSpec ==
    PromptSpec /\ WF_vars(GSchedule) /\ WF_vars(GWake) /\ WF_vars(GRunPrompt)
               /\ WF_vars(GDialogClosed)

(***************************************************************************)
(* C22.  With the GUI as retry-prompt handler the worker stays in the      *)
(* prompt call until the foreground has produced a choice and gets exactly *)
(* the dialog's choice (Cancel when it was dismissed without one); and     *)
(* every request is answered in the end, whether or not the window still   *)
(* exists when the request is made: the worker does not wait forever.      *)
(* Stated as the claim has it; the code violates it.                       *)
(***************************************************************************)
C22_AnswerIsDialogChoice ==
    \A k \in Idx(1) :
        (IsPromptRet(At(1, k)) /\ At(1, k).out # "error")
            => /\ gui.wait_event
               /\ At(1, k).out = IF gui.result = "" THEN "cancel" ELSE gui.result

C22_PromptHandOff ==
    /\ []C22_AnswerIsDialogChoice
    /\ (w[1].pc = "waiting") ~> (w[1].pc # "waiting")

====
